---- MODULE Spec2Model ----
(***************************************************************************)
(* Model of examples/gallery/simple/save_filtered_df.ipynb.                *)
(*                                                                         *)
(* The file holds two notebooks.  The first is the "save filtered          *)
(* dataframe" application: a Years multi-select and a Mile-per-Gallon      *)
(* range slider drive filtered_mpg (the displayed view) and filtered_file  *)
(* (the download callback).  The second is the APIs user guide: one        *)
(* plotting function and four examples (interact, reactive function,       *)
(* Parameterized class, callbacks) built on it.                            *)
(*                                                                         *)
(* A DataFrame is a sequence of rows [idx, mpg, yr]; idx is the index      *)
(* label, mpg and yr are the two columns the filter reads.                 *)
(***************************************************************************)
EXTENDS Integers, Sequences, FiniteSets, TLC

\* ------------------------------------------------------------------ bounds
NumYears == 2
MaxMpg == 2
MaxRows == 3

YearVals == 70..(69 + NumYears)
MpgVals == 1..MaxMpg

\* Every dataset the bundled sample could be, up to MaxRows rows.  Like the
\* sample, a dataset lists its rows by model year.
DataFrames ==
  UNION { { [i \in 1..n |-> [idx |-> i - 1, mpg |-> m[i], yr |-> y[i]]] :
              m \in [1..n -> MpgVals],
              y \in {f \in [1..n -> YearVals] :
                       \A i \in 1..(n - 1) : f[i] <= f[i + 1]} } :
          n \in 1..MaxRows }

VARIABLES
  autompg,     \* the dataset (module global of the notebook)
  yearsValue,  \* years.value
  mpgValue,    \* mpg.value, a pair <<lo, hi>>
  view,        \* object shown by pn.panel(filtered_mpg)
  fd,          \* buffer last handed to the FileDownload widget
  last,        \* the operation that ran last
  call,        \* the last direct invocation of filtered_mpg / filtered_file
  cell,        \* number of code cells of the APIs notebook already run
  binding,     \* function the global name autompg_plot is bound to
  hvPadding,   \* padding hvplot applies when the keyword is not passed
  plain,       \* output of the bare autompg_plot() cell
  ia,          \* interact example
  re,          \* reactive function example
  ex,          \* Parameterized class example
  cb           \* callbacks example

filterVars == <<autompg, yearsValue, mpgValue, view, fd, last>>
apiVars == <<cell, binding, hvPadding, plain, ia, re, ex, cb>>
vars == <<autompg, yearsValue, mpgValue, view, fd, last, call,
          cell, binding, hvPadding, plain, ia, re, ex, cb>>

NoFile == [data |-> <<>>, pos |-> -1]
NoCall == [fn |-> "none"]
NotBuilt == [fn |-> "none"]

\* --------------------------------------------------------- pandas helpers
\* autompg.yr.unique()
Unique(df) == {df[i].yr : i \in 1..Len(df)}

\* autompg.mpg.min(), autompg.mpg.max()
MpgMin(df) == CHOOSE v \in {df[i].mpg : i \in 1..Len(df)} :
                \A j \in 1..Len(df) : v <= df[j].mpg
MpgMax(df) == CHOOSE v \in {df[i].mpg : i \in 1..Len(df)} :
                \A j \in 1..Len(df) : v >= df[j].mpg

\* autompg.yr.isin(yrs): a boolean mask
Isin(df, yrs) == [i \in 1..Len(df) |-> df[i].yr \in yrs]

\* df.mpg > v, the slip of writing a strict bound
Gt(df, v) == [i \in 1..Len(df) |-> df[i].mpg > v]

\* df.mpg >= v
Ge(df, v) == [i \in 1..Len(df) |-> df[i].mpg >= v]

\* df.mpg <= v
Le(df, v) == [i \in 1..Len(df) |-> df[i].mpg <= v]

\* mask & mask
MaskAnd(a, b) == [i \in DOMAIN a |-> a[i] /\ b[i]]

RECURSIVE BoolIndexFrom(_, _, _)
BoolIndexFrom(df, mask, i) ==
  IF i > Len(df) THEN <<>>
  ELSE (IF mask[i] THEN <<df[i]>> ELSE <<>>) \o BoolIndexFrom(df, mask, i + 1)

\* df[mask] started one position late
BoolIndexOffByOne(df, mask) == BoolIndexFrom(df, mask, 2)

\* df[mask]: the rows whose mask entry is True, in order
BoolIndex(df, mask) == BoolIndexFrom(df, mask, 1)

\* ------------------------------------------------------------ filtered_mpg
\* filtered_mpg with the year predicate applied unconditionally
filtered_mpg_always_isin(frame, yearsWidget, yrs, mpg) ==
  LET df == BoolIndex(frame, Isin(frame, yrs))
  IN  BoolIndex(df, MaskAnd(Ge(df, mpg[1]), Le(df, mpg[2])))

\* filtered_mpg(yrs, mpg).  The body reads two globals, the dataset autompg
\* and the widget years; they are the first two parameters here.
filtered_mpg(frame, yearsWidget, yrs, mpg) ==
  LET df == IF yearsWidget # {}
            THEN BoolIndex(frame, Isin(frame, yrs))
            ELSE frame
  IN  BoolIndex(df, MaskAnd(Ge(df, mpg[1]), Le(df, mpg[2])))

\* ------------------------------------------------------------ StringIO
\* StringIO()
NewStringIO == [data |-> <<>>, pos |-> 0]

\* sio.write(lines): overwrite from pos, extend, advance pos
Write(sio, lines) ==
  LET n == Len(lines)
      keep == SubSeq(sio.data, 1, sio.pos)
      rest == SubSeq(sio.data, sio.pos + n + 1, Len(sio.data))
  IN  [data |-> keep \o lines \o rest, pos |-> sio.pos + n]

\* sio.seek(p)
Seek(sio, p) == [sio EXCEPT !.pos = p]

\* sio.read(): everything from pos to the end
Read(sio) == SubSeq(sio.data, sio.pos + 1, Len(sio.data))

\* header line of to_csv: the unnamed index column, then the columns
CsvHeader == <<"", "mpg", "yr">>

\* one row of to_csv: index label, then the columns in order
CsvRow(r) == <<r.idx, r.mpg, r.yr>>

RECURSIVE WriteRows(_, _, _)
WriteRows(sio, df, i) ==
  IF i > Len(df) THEN sio
  ELSE WriteRows(Write(sio, <<CsvRow(df[i])>>), df, i + 1)

\* to_csv that writes nothing at all for a frame without rows
to_csv_skip_empty(df, sio) ==
  IF Len(df) = 0 THEN sio ELSE WriteRows(Write(sio, <<CsvHeader>>), df, 1)

\* df.to_csv(sio)
to_csv(df, sio) == WriteRows(Write(sio, <<CsvHeader>>), df, 1)

\* filtered_file without the rewind
filtered_file_no_seek(frame, yearsWidget, yr, mpg) ==
  to_csv(filtered_mpg(frame, yearsWidget, yr, mpg), NewStringIO)

\* filtered_file(yr, mpg)
filtered_file(frame, yearsWidget, yr, mpg) ==
  LET df == filtered_mpg(frame, yearsWidget, yr, mpg)
      sio == to_csv(df, NewStringIO)
  IN  Seek(sio, 0)

\* ------------------------------------------------------------ widgets
\* options of the Years MultiChoice
YearOptions == Unique(autompg)

\* values the RangeSlider can take: lo <= hi within [start, end]
SliderRanges ==
  {r \in (MpgMin(autompg)..MpgMax(autompg)) \X (MpgMin(autompg)..MpgMax(autompg)) :
     r[1] <= r[2]}

\* ------------------------------------------------- the filter application
\* State once the cell has run: nothing selected, the slider spans the
\* data, pn.panel(filtered_mpg) has rendered once, nothing downloaded.
InitFilter ==
  /\ autompg \in DataFrames
  /\ yearsValue = {}
  /\ mpgValue = <<MpgMin(autompg), MpgMax(autompg)>>
  /\ view = filtered_mpg(autompg, yearsValue, yearsValue, mpgValue)
  /\ fd = NoFile
  /\ last = "init"

\* a years change that filters the rows on display instead of the dataset
SetYearsFromView(S) ==
  /\ S # yearsValue
  /\ yearsValue' = S
  /\ view' = filtered_mpg(view, S, S, mpgValue)
  /\ last' = "years"
  /\ UNCHANGED <<autompg, mpgValue, fd>>

\* The user changes the Years selection; the pane bound by pn.depends
\* re-evaluates filtered_mpg with the new widget values.
SetYears(S) ==
  /\ S # yearsValue
  /\ yearsValue' = S
  /\ view' = filtered_mpg(autompg, S, S, mpgValue)
  /\ last' = "years"
  /\ UNCHANGED <<autompg, mpgValue, fd>>

\* a slider change whose re-evaluation is lost
SetMpgStale(r) ==
  /\ r # mpgValue
  /\ mpgValue' = r
  /\ last' = "mpg"
  /\ UNCHANGED <<autompg, yearsValue, view, fd>>

\* The user moves the range slider; the pane re-evaluates filtered_mpg.
SetMpg(r) ==
  /\ r # mpgValue
  /\ mpgValue' = r
  /\ view' = filtered_mpg(autompg, yearsValue, yearsValue, r)
  /\ last' = "mpg"
  /\ UNCHANGED <<autompg, yearsValue, fd>>

\* The user clicks the FileDownload button: the callback filtered_file is
\* evaluated with the current values of the widgets it depends on.
Download ==
  /\ fd' = filtered_file(autompg, yearsValue, yearsValue, mpgValue)
  /\ last' = "download"
  /\ UNCHANGED <<autompg, yearsValue, mpgValue, view>>

\* ---------------------------------------------------------- direct calls
Args == (SUBSET YearOptions) \X SliderRanges

\* filtered_mpg(yrs, mpg) called as a plain function, whatever the widgets hold
CallFilteredMpg(yrs, mpg) ==
  /\ call' = [fn |-> "filtered_mpg", yrs |-> yrs, mpg |-> mpg,
              rows |-> filtered_mpg(autompg, yearsValue, yrs, mpg)]
  /\ UNCHANGED filterVars

\* filtered_file(yr, mpg) called as a plain function: it passes its own
\* arguments on to filtered_mpg
CallFilteredFile(yr, mpg) ==
  /\ call' = [fn |-> "filtered_file", yrs |-> yr, mpg |-> mpg,
              rows |-> filtered_mpg(autompg, yearsValue, yr, mpg),
              ret |-> filtered_file(autompg, yearsValue, yr, mpg)]
  /\ UNCHANGED filterVars

\* ------------------------------------------------- the APIs notebook
\* columns = list(autompg.columns[:-2]), cut down to the two default axes
Columns == {"mpg", "hp"}

\* colours a ColorPicker / param.Color can hold: the four initial ones
Colors == {"#4f4fdf", "#AA0505", "#0f0f0f", "#880588"}

\* values a widget of the given kind can take
WidgetValues(w) == IF w = "color" THEN Colors ELSE Columns

\* padding, in percent, that hvplot may apply when the keyword is absent
HvPaddings == {0, 10}

\* first definition: autompg.hvplot.scatter(x, y, c=color, padding=0.1)
autompg_plot_first(x, y, color) ==
  [kind |-> "scatter", x |-> x, y |-> y, c |-> color, padding |-> 10]

\* pn.depends redefinition: autompg.hvplot.scatter(x, y, c=color)
autompg_plot_depends(x, y, color) ==
  [kind |-> "scatter", x |-> x, y |-> y, c |-> color, padding |-> hvPadding]

\* calling the function object fn
CallPlot(fn, x, y, color) ==
  IF fn = "first" THEN autompg_plot_first(x, y, color)
  ELSE autompg_plot_depends(x, y, color)

\* an example once built: the function object it holds (or "global" when it
\* looks the name autompg_plot up on every call), its widgets, its output
Example(fn, x, y, color, out) ==
  [fn |-> fn, x |-> x, y |-> y, color |-> color, out |-> out]

\* the function an example calls now
Callee(e) == IF e.fn = "global" THEN binding ELSE e.fn

\* widget w of example e set to v
WithWidget(e, w, v) ==
  IF w = "x" THEN [e EXCEPT !.x = v]
  ELSE IF w = "y" THEN [e EXCEPT !.y = v]
  ELSE [e EXCEPT !.color = v]

\* value of widget w of example e
WidgetOf(e, w) == IF w = "x" THEN e.x ELSE IF w = "y" THEN e.y ELSE e.color

\* example e re-rendered from its current widget values
Rerender(e) == [e EXCEPT !.out = CallPlot(Callee(e), e.x, e.y, e.color)]

InitApis ==
  /\ cell = 0
  /\ binding = "none"
  /\ hvPadding \in HvPaddings
  /\ plain = NotBuilt
  /\ ia = NotBuilt
  /\ re = NotBuilt
  /\ ex = NotBuilt
  /\ cb = NotBuilt

\* cell 1: def autompg_plot(x='mpg', y='hp', color='#058805')
RunDefine ==
  /\ cell = 0
  /\ cell' = 1
  /\ binding' = "first"
  /\ UNCHANGED <<hvPadding, plain, ia, re, ex, cb>>

\* cell 2: autompg_plot()
RunPlain ==
  /\ cell = 1
  /\ cell' = 2
  /\ plain' = Example(binding, "mpg", "hp", "#058805",
                      CallPlot(binding, "mpg", "hp", "#058805"))
  /\ UNCHANGED <<binding, hvPadding, ia, re, ex, cb>>

\* cell 3: import panel as pn; pn.extension()
RunImport ==
  /\ cell = 2
  /\ cell' = 3
  /\ UNCHANGED <<binding, hvPadding, plain, ia, re, ex, cb>>

\* cell 4: pn.interact(autompg_plot, x=columns, y=columns, color=color)
RunInteract ==
  /\ cell = 3
  /\ cell' = 4
  /\ ia' = Example(binding, "mpg", "hp", "#4f4fdf",
                   CallPlot(binding, "mpg", "hp", "#4f4fdf"))
  /\ UNCHANGED <<binding, hvPadding, plain, re, ex, cb>>

\* cell 5: the widgets, the pn.depends redefinition of autompg_plot, the Row
RunReactive ==
  /\ cell = 4
  /\ cell' = 5
  /\ binding' = "depends"
  /\ re' = Example("depends", "mpg", "hp", "#AA0505",
                   autompg_plot_depends("mpg", "hp", "#AA0505"))
  /\ UNCHANGED <<hvPadding, plain, ia, ex, cb>>

\* cell 6: class MPGExplorer; explorer = MPGExplorer(); the Row
RunParameterized ==
  /\ cell = 5
  /\ cell' = 6
  /\ ex' = Example("global", "mpg", "hp", "#0f0f0f",
                   CallPlot(binding, "mpg", "hp", "#0f0f0f"))
  /\ UNCHANGED <<binding, hvPadding, plain, ia, re, cb>>

\* cell 7: the widgets, the layout with its initial plot, the three watchers
RunCallbacks ==
  /\ cell = 6
  /\ cell' = 7
  /\ cb' = Example("global", "mpg", "hp", "#880588",
                   CallPlot(binding, "mpg", "hp", "#880588"))
  /\ UNCHANGED <<binding, hvPadding, plain, ia, re, ex>>

\* a widget of the interact example changes: interact re-runs its function
InteractEvent(w, v) ==
  /\ ia # NotBuilt
  /\ WidgetOf(ia, w) # v
  /\ ia' = Rerender(WithWidget(ia, w, v))
  /\ UNCHANGED <<cell, binding, hvPadding, plain, re, ex, cb>>

\* a widget of the reactive example changes: the depends function re-runs
ReactiveEvent(w, v) ==
  /\ re # NotBuilt
  /\ WidgetOf(re, w) # v
  /\ re' = Rerender(WithWidget(re, w, v))
  /\ UNCHANGED <<cell, binding, hvPadding, plain, ia, ex, cb>>

\* a parameter of explorer changes: explorer.plot re-runs
ExplorerEvent(w, v) ==
  /\ ex # NotBuilt
  /\ WidgetOf(ex, w) # v
  /\ ex' = Rerender(WithWidget(ex, w, v))
  /\ UNCHANGED <<cell, binding, hvPadding, plain, ia, re, cb>>

\* update that is not registered for the colour picker
updateNoColorWatch(w, v) ==
  /\ cb # NotBuilt
  /\ WidgetOf(cb, w) # v
  /\ cb' = IF w = "color" THEN WithWidget(cb, w, v)
           ELSE Rerender(WithWidget(cb, w, v))
  /\ UNCHANGED <<cell, binding, hvPadding, plain, ia, re, ex>>

\* a widget of the callbacks example changes and its watcher runs
\* update(event): layout[1].object = autompg_plot(x.value, y.value, color.value)
update(w, v) ==
  /\ cb # NotBuilt
  /\ WidgetOf(cb, w) # v
  /\ cb' = Rerender(WithWidget(cb, w, v))
  /\ UNCHANGED <<cell, binding, hvPadding, plain, ia, re, ex>>

\* ------------------------------------------------------- specifications
\* the APIs notebook has not been opened
ApisIdle ==
  /\ cell = 0
  /\ binding = "none"
  /\ hvPadding = 10
  /\ plain = NotBuilt
  /\ ia = NotBuilt
  /\ re = NotBuilt
  /\ ex = NotBuilt
  /\ cb = NotBuilt

\* the filter application has not been opened
FilterIdle ==
  /\ autompg = <<[idx |-> 0, mpg |-> 1, yr |-> 70]>>
  /\ yearsValue = {}
  /\ mpgValue = <<1, 1>>
  /\ view = autompg
  /\ fd = NoFile
  /\ last = "init"

\* The filter application driven through its widgets.
Init == InitFilter /\ call = NoCall /\ ApisIdle

Next ==
  \/ \E S \in SUBSET YearOptions : SetYears(S) /\ UNCHANGED <<call, apiVars>>
  \/ \E r \in SliderRanges : SetMpg(r) /\ UNCHANGED <<call, apiVars>>
  \/ Download /\ UNCHANGED <<call, apiVars>>

Spec == Init /\ [][Next]_vars

\* The filter application with its two functions also called directly.
NextCalls ==
  \/ \E S \in SUBSET YearOptions : SetYears(S) /\ UNCHANGED <<call, apiVars>>
  \/ \E r \in SliderRanges : SetMpg(r) /\ UNCHANGED <<call, apiVars>>
  \/ \E a \in Args : CallFilteredMpg(a[1], a[2]) /\ UNCHANGED apiVars
  \/ \E a \in Args : CallFilteredFile(a[1], a[2]) /\ UNCHANGED apiVars

SpecCalls == Init /\ [][NextCalls]_vars

\* The APIs notebook, cells run in order, widgets used in between.
InitNotebook == InitApis /\ FilterIdle /\ call = NoCall

NextNotebook ==
  \/ RunDefine /\ UNCHANGED <<filterVars, call>>
  \/ RunPlain /\ UNCHANGED <<filterVars, call>>
  \/ RunImport /\ UNCHANGED <<filterVars, call>>
  \/ RunInteract /\ UNCHANGED <<filterVars, call>>
  \/ RunReactive /\ UNCHANGED <<filterVars, call>>
  \/ RunParameterized /\ UNCHANGED <<filterVars, call>>
  \/ RunCallbacks /\ UNCHANGED <<filterVars, call>>
  \/ \E w \in {"x", "y", "color"} : \E v \in WidgetValues(w) :
       InteractEvent(w, v) /\ UNCHANGED <<filterVars, call>>
  \/ \E w \in {"x", "y", "color"} : \E v \in WidgetValues(w) :
       ReactiveEvent(w, v) /\ UNCHANGED <<filterVars, call>>
  \/ \E w \in {"x", "y", "color"} : \E v \in WidgetValues(w) :
       ExplorerEvent(w, v) /\ UNCHANGED <<filterVars, call>>
  \/ \E w \in {"x", "y", "color"} : \E v \in WidgetValues(w) :
       update(w, v) /\ UNCHANGED <<filterVars, call>>

SpecNotebook == InitNotebook /\ [][NextNotebook]_vars

\* ------------------------------------------------------------ properties
\* the set of rows of a frame
RowsOf(df) == {df[i] : i \in 1..Len(df)}

\* row r lies within the selected range, both bounds included
InRange(r) == mpgValue[1] <= r.mpg /\ r.mpg <= mpgValue[2]

\* row r has one of the selected years
InYears(r) == r.yr \in yearsValue

\* the rows the application is to show for the current control values: the
\* range predicate, and the year predicate when some year is selected
ExpectedView ==
  SelectSeq(autompg, LAMBDA r : (yearsValue = {} \/ InYears(r)) /\ InRange(r))

\* the text to_csv is to produce for a frame: the header, then one line per
\* row in order
ExpectedCsv(df) ==
  [i \in 1..(Len(df) + 1) |->
     IF i = 1 THEN <<"", "mpg", "yr">>
     ELSE <<df[i - 1].idx, df[i - 1].mpg, df[i - 1].yr>>]

\* C1 as stated: whatever the selection S and the range, the view holds
\* exactly the rows with yr in S and lo <= mpg <= hi.
C1_AsStated ==
  RowsOf(view) = {r \in RowsOf(autompg) : InYears(r) /\ InRange(r)}

\* C1 as amended: for every non-empty selection S of the Years widget and
\* every range, the view holds exactly the rows with yr in S and
\* lo <= mpg <= hi, each once.
C1_NonEmptySelection ==
  yearsValue # {} =>
    /\ RowsOf(view) = {r \in RowsOf(autompg) : InYears(r) /\ InRange(r)}
    /\ Cardinality(RowsOf(view)) = Len(view)

\* some year is selected; one row is kept on a bound of the range, one is
\* dropped for its year alone and one for its mpg alone
C1_Witness ==
  /\ yearsValue # {}
  /\ \E r \in RowsOf(view) : r.mpg = mpgValue[1] \/ r.mpg = mpgValue[2]
  /\ \E r \in RowsOf(autompg) : ~InYears(r) /\ InRange(r)
  /\ \E r \in RowsOf(autompg) : InYears(r) /\ ~InRange(r)

\* C2: after every change of either control the displayed view is the
\* filter applied to the current values of both controls.
C2_ViewIsCurrent == view = ExpectedView

\* both controls have been changed, the slider last, and the view shows
\* some rows but not all
C2_Witness ==
  /\ last = "mpg"
  /\ yearsValue # {}
  /\ mpgValue # <<MpgMin(autompg), MpgMax(autompg)>>
  /\ view # <<>>
  /\ view # autompg

\* C3: right after a download the buffer, read from where it stands, is the
\* whole serialization of the rows on display, which are the rows the filter
\* yields for the current control values.
C3_DownloadIsCurrentView ==
  last = "download" =>
    /\ fd.pos = 0
    /\ Read(fd) = ExpectedCsv(view)
    /\ view = ExpectedView

\* a download of a view narrowed by both controls that still has rows
C3_Witness ==
  /\ last = "download"
  /\ yearsValue # {}
  /\ Len(view) >= 1
  /\ \E r \in RowsOf(autompg) : ~InYears(r) /\ InRange(r)
  /\ \E r \in RowsOf(autompg) : InYears(r) /\ ~InRange(r)

\* C4: the filter applied with the same control values to its own result
\* returns that result.
C4_Idempotent ==
  filtered_mpg(view, yearsValue, yearsValue, mpgValue) = view

\* a result that kept some rows and dropped others, under a year selection
C4_Witness ==
  /\ yearsValue # {}
  /\ Len(view) >= 2
  /\ Len(view) < Len(autompg)

\* C5: no operation changes the dataset, and every view is computed from
\* the full dataset, not from the view before it.
C5_DatasetReadOnly ==
  [][autompg' = autompg /\ view' = ExpectedView']_vars

\* the view now holds more rows than the narrower one downloaded earlier
C5_Witness ==
  /\ last = "years"
  /\ fd # NoFile
  /\ Len(fd.data) - 1 < Len(view)
  /\ Len(view) < Len(autompg)

\* C6: when no row satisfies the control values the view is the empty
\* frame and a download yields the header line alone, from the start.
C6_EmptyIsNotAnError ==
  (\A r \in RowsOf(autompg) : ~((yearsValue = {} \/ InYears(r)) /\ InRange(r))) =>
    /\ view = <<>>
    /\ (last = "download" => (fd.pos = 0 /\ Read(fd) = <<CsvHeader>>))

\* a download while no row satisfies the control values
C6_Witness ==
  /\ last = "download"
  /\ view = <<>>
  /\ fd.data = <<CsvHeader>>

\* C10: with no year selected the view, and the download, hold every row
\* within the range whatever its year.
C10_NoYearSkipsPredicate ==
  yearsValue = {} =>
    /\ RowsOf(view) = {r \in RowsOf(autompg) : InRange(r)}
    /\ (last = "download" =>
         RowsOf(Tail(Read(fd))) =
           {<<r.idx, r.mpg, r.yr>> : r \in {q \in RowsOf(autompg) : InRange(q)}})

\* a download with the selection emptied again, rows of two years kept and
\* a row dropped for its mpg
C10_Witness ==
  /\ yearsValue = {}
  /\ last = "download"
  /\ \E r, q \in RowsOf(view) : r.yr # q.yr
  /\ \E r \in RowsOf(autompg) : ~InRange(r)

\* C9 as stated: two invocations of filtered_mpg with the same (yrs, mpg)
\* return the same rows, whatever the widgets hold at each call.
C9_SameArgsSameRows ==
  [][(call # NoCall /\ call' # NoCall /\ call'.yrs = call.yrs /\ call'.mpg = call.mpg)
       => call'.rows = call.rows]_vars

\* C7: once the callbacks example is built, layout[1] is the scatter plot of
\* the current x, y and color values.
C7_LayoutFollowsWidgets ==
  cb # NotBuilt =>
    /\ cb.out.kind = "scatter"
    /\ cb.out.x = cb.x
    /\ cb.out.y = cb.y
    /\ cb.out.c = cb.color

\* all three widgets of the callbacks example have been moved
C7_Witness ==
  /\ cb # NotBuilt
  /\ cb.x # "mpg"
  /\ cb.y # "hp"
  /\ cb.color # "#880588"
  /\ cb.out.c = cb.color

\* C8 as stated: what each of the four examples displays is the result of
\* the first-cell autompg_plot for its current values.
C8_AllUseFirstDefinition ==
  \A e \in {ia, re, ex, cb} :
    e # NotBuilt => e.out = autompg_plot_first(e.x, e.y, e.color)

====
